---- MODULE Spec2Model ----
(***************************************************************************)
(* Model of the EWSX archive handling of EW-Automate: unzip.py (the        *)
(* archive expander) and ewsx.py (the archive object with from_file,       *)
(* save, expand_to_dir and structure), and of the song import of           *)
(* songimport.py (process_song, process_txt_files, create_backup, main).   *)
(*                                                                         *)
(* A name is a sequence of one-character strings.  A path on disk is a     *)
(* sequence of segments, each segment a name without host separators.      *)
(* A directory tree is a record [dirs, files]: the set of the paths of its *)
(* directories and a function from the paths of its files to their bytes.  *)
(* Bytes are abstracted to naturals; 0 is the empty content.               *)
(***************************************************************************)
EXTENDS Naturals, Integers, Sequences, FiniteSets, TLC

VARIABLES platform, disk, template, obj, tempDirs, outDir, dest, last, probe,
          crcPatched, songDb, wordDb, backups, main

\* the state songimport.py acts on: the song table of Songs.db, the word
\* table of SongWords.db, the backups of the running main and its position
songVars == <<songDb, wordDb, backups, main>>

vars == <<platform, disk, template, obj, tempDirs, outDir, dest, last, probe,
          crcPatched, songDb, wordDb, backups, main>>

(***************************************************************************)
(* Bounds of the model.                                                    *)
(***************************************************************************)
\* longest archive drawn in Init
MaxEntries == 2
\* longest name handed to is_directory in SpecIsDir
MaxNameLen == 3
\* expand_to_dir is called while outDir holds at most this many entries
MaxSchedules == 2
\* most file paths on one command line of the song import
MaxFiles == 2
\* process_song is called while the word table has fewer rows than this
MaxWordRows == 3

(***************************************************************************)
(* Values.                                                                 *)
(***************************************************************************)
None == "None"

\* a path of the disk that holds an archive, something else, or nothing
ZipFile(entries) == [kind |-> "zip", entries |-> entries]
MissingFile == [kind |-> "missing", entries |-> <<>>]
GarbageFile == [kind |-> "garbage", entries |-> <<>>]

Platforms == {"Linux", "Darwin", "Windows"}

EmptyBytes == 0
TemplateBytes == 9

EmptyTree == [dirs |-> {}, files |-> <<>>]

\* names the code spells out
MediaName == <<"m", "e", "d", "i", "a">>
MainDbName == <<"m", "a", "i", "n", ".", "d", "b">>
ScheduleWord == <<"s", "c", "h", "e", "d", "u", "l", "e">>

(***************************************************************************)
(* os.path on names.  posixpath splits on "/" only, ntpath on "/" and "\". *)
(***************************************************************************)
PathSeps(plat) == IF plat = "Windows" THEN {"/", "\\"} ELSE {"/"}

OsSep(plat) == IF plat = "Windows" THEN "\\" ELSE "/"

\* str.rfind over a set of characters: index of the last one, 0 when none
LastSepIdx(name, seps) ==
  IF \E i \in 1..Len(name) : name[i] \in seps
  THEN CHOOSE i \in 1..Len(name) :
         /\ name[i] \in seps
         /\ \A j \in (i+1)..Len(name) : name[j] \notin seps
  ELSE 0

basename(name, plat) ==
  SubSeq(name, LastSepIdx(name, PathSeps(plat)) + 1, Len(name))

\* head of os.path.split, separator included (SplitPath drops it)
dirname(name, plat) ==
  SubSeq(name, 1, LastSepIdx(name, PathSeps(plat)))

endswith(name, c) == Len(name) > 0 /\ name[Len(name)] = c

RECURSIVE startswith(_, _)
startswith(x, f) ==
  IF f = <<>> THEN TRUE
  ELSE IF x = <<>> THEN FALSE
  ELSE Head(x) = Head(f) /\ startswith(Tail(x), Tail(f))

HasDot(name) == \E i \in 1..Len(name) : name[i] = "."

\* the segments of a name as the host file system resolves it: split on the
\* host separators, empty segments and "." segments name no directory
RECURSIVE SplitFrom(_, _, _)
SplitFrom(name, seps, cur) ==
  IF name = <<>>
  THEN IF cur = <<>> \/ cur = <<".">> THEN <<>> ELSE <<cur>>
  ELSE IF Head(name) \in seps
       THEN (IF cur = <<>> \/ cur = <<".">> THEN <<>> ELSE <<cur>>)
            \o SplitFrom(Tail(name), seps, <<>>)
       ELSE SplitFrom(Tail(name), seps, Append(cur, Head(name)))

SplitPath(name, plat) == SplitFrom(name, PathSeps(plat), <<>>)

\* segments joined by one separator character
RECURSIVE JoinWith(_, _)
JoinWith(path, sep) ==
  IF path = <<>> THEN <<>>
  ELSE IF Len(path) = 1 THEN path[1]
  ELSE path[1] \o <<sep>> \o JoinWith(Tail(path), sep)

\* str.replace of one character
Replace(name, from, to) ==
  [i \in 1..Len(name) |-> IF name[i] = from THEN to ELSE name[i]]

\* os.path.normpath of a relative name without ".." segments
normpath(name, plat) == JoinWith(SplitPath(name, plat), OsSep(plat))

(***************************************************************************)
(* unzip.is_directory                                                      *)
(***************************************************************************)
is_directory_whole_name(name, plat) ==
  IF endswith(name, "/") \/ endswith(name, "\\") THEN TRUE
  ELSE IF ~HasDot(name) THEN TRUE
  ELSE FALSE

is_directory(name, plat) ==
  IF endswith(name, "/") \/ endswith(name, "\\") THEN TRUE
  ELSE IF ~HasDot(basename(name, plat)) THEN TRUE
  ELSE FALSE

(***************************************************************************)
(* The file system calls the code makes, on a directory tree.  A path is   *)
(* relative to the root of the tree, which always exists.                  *)
(***************************************************************************)
Parent(p) == SubSeq(p, 1, Len(p) - 1)

Prefixes(p) == {SubSeq(p, 1, k) : k \in 1..Len(p)}

IsDirAt(t, p) == p = <<>> \/ p \in t.dirs

IsFileAt(t, p) == p \in DOMAIN t.files

\* os.makedirs(path, exist_ok=True): fails when the path or one of its
\* ancestors is a file, and then creates nothing
makedirs(t, p) ==
  LET ok == \A q \in Prefixes(p) : ~IsFileAt(t, q)
  IN [ok |-> ok,
      tree |-> IF ok THEN [t EXCEPT !.dirs = @ \cup Prefixes(p)] ELSE t]

\* os.mkdir(path): the parent must be a directory and the path must be free
mkdir(t, p) ==
  LET ok == /\ p # <<>>
            /\ IsDirAt(t, Parent(p))
            /\ ~IsDirAt(t, p)
            /\ ~IsFileAt(t, p)
  IN [ok |-> ok,
      tree |-> IF ok THEN [t EXCEPT !.dirs = @ \cup {p}] ELSE t]

\* can open(path, "wb+") succeed
CanOpenW(t, p) == p # <<>> /\ IsDirAt(t, Parent(p)) /\ ~IsDirAt(t, p)

\* the tree with bytes d in the file at p (created or truncated)
WithFile(t, p, d) == [t EXCEPT !.files = (p :> d) @@ @]

(***************************************************************************)
(* unzip.ExpandEWSXFile.  An archive on disk is a sequence of entries      *)
(* [name, data, fault]: fault "open" makes z.open(name) raise, fault       *)
(* "read" makes source.read() raise (corrupted deflate data).              *)
(***************************************************************************)
\* line 34: the name the file is written under
OutFile(name, plat) ==
  IF plat = "Darwin" THEN Replace(normpath(name, plat), "\\", "/") ELSE name

\* lines 34-35: the path below the output directory the file is written at
TargetOf(name, plat) == SplitPath(OutFile(name, plat), plat)

\* lines 24-39 for one entry; status is what happened to the entry: "dir"
\* (directory made), "raised" (os.makedirs raised, outside the try),
\* "open_failed" (z.open raised), "no_parent" and "target_is_dir" (open of
\* out_path raised), "read_failed" (source.read raised after out_path was
\* opened, which created or truncated it), "written"
ExpandEntry(t, e, plat) ==
  IF is_directory(e.name, plat)
  THEN LET md == makedirs(t, SplitPath(e.name, plat))
       IN [tree |-> md.tree, raised |-> ~md.ok,
           status |-> IF md.ok THEN "dir" ELSE "raised"]
  ELSE LET md == makedirs(t, SplitPath(dirname(e.name, plat), plat))
           target == TargetOf(e.name, plat)
       IN IF ~md.ok
          THEN [tree |-> t, raised |-> TRUE, status |-> "raised"]
          ELSE IF e.fault = "open"
          THEN [tree |-> md.tree, raised |-> FALSE, status |-> "open_failed"]
          ELSE IF ~IsDirAt(md.tree, Parent(target))
          THEN [tree |-> md.tree, raised |-> FALSE, status |-> "no_parent"]
          ELSE IF ~CanOpenW(md.tree, target)
          THEN [tree |-> md.tree, raised |-> FALSE, status |-> "target_is_dir"]
          ELSE IF e.fault = "read"
          THEN [tree |-> WithFile(md.tree, target, EmptyBytes),
                raised |-> FALSE, status |-> "read_failed"]
          ELSE [tree |-> WithFile(md.tree, target, e.data),
                raised |-> FALSE, status |-> "written"]

\* the loop of line 23 from entry i on; an exception leaves the loop
RECURSIVE ExpandFrom(_, _, _, _, _)
ExpandFrom(t, entries, i, plat, status) ==
  IF i > Len(entries)
  THEN [tree |-> t, raised |-> FALSE, status |-> status]
  ELSE LET r == ExpandEntry(t, entries[i], plat)
       IN IF r.raised
          THEN [tree |-> r.tree, raised |-> TRUE,
                status |-> status \o <<r.status>>
                             \o [k \in 1..(Len(entries) - i) |-> "skipped"]]
          ELSE ExpandFrom(r.tree, entries, i + 1, plat,
                          Append(status, r.status))

\* zipfile.ZipFile(filepath, "r") inside a handler that logs and goes on
ExpandEWSXFileLogsBadArchive(zip, t, plat) ==
  IF zip.kind # "zip"
  THEN [tree |-> t, raised |-> FALSE, status |-> <<>>]
  ELSE ExpandFrom(t, zip.entries, 1, plat, <<>>)

\* zipfile.ZipFile(filepath, "r") raises on a missing file or a non-zip
ExpandEWSXFile(zip, t, plat) ==
  IF zip.kind # "zip"
  THEN [tree |-> t, raised |-> TRUE, status |-> <<>>]
  ELSE ExpandFrom(t, zip.entries, 1, plat, <<>>)

(***************************************************************************)
(* os.walk and os.listdir.  The order in which a directory lists its       *)
(* entries is the file system's; the model fixes one order.                *)
(***************************************************************************)
SetToSeq(S) ==
  CHOOSE f \in [1..Cardinality(S) -> S] :
    \A i, j \in 1..Cardinality(S) : i # j => f[i] # f[j]

FilesIn(t, root) == {p \in DOMAIN t.files : Len(p) > 0 /\ Parent(p) = root}

DirsIn(t, root) == {p \in t.dirs : Len(p) > 0 /\ Parent(p) = root}

\* os.path.relpath(full_path, top) of a path below top
relpath(p, plat) == JoinWith(p, OsSep(plat))

\* ewsx.py lines 44-51: the walk of from_file.  A file is recorded under its
\* path relative to the top, a directory under its own name (line 51 appends
\* the element of dirs, not a path).
RECURSIVE WalkFrom(_, _, _)
RECURSIVE WalkAll(_, _, _, _)
WalkFrom(t, root, plat) ==
  LET fs == SetToSeq(FilesIn(t, root))
      ds == SetToSeq(DirsIn(t, root))
      here == [files |-> [i \in 1..Len(fs) |->
                            <<relpath(fs[i], plat), t.files[fs[i]]>>],
               dirs |-> [i \in 1..Len(ds) |-> ds[i][Len(ds[i])]]]
  IN WalkAll(t, ds, plat, here)

WalkAll(t, ds, plat, acc) ==
  IF ds = <<>> THEN acc
  ELSE LET sub == WalkFrom(t, Head(ds), plat)
       IN WalkAll(t, Tail(ds), plat,
                  [files |-> acc.files \o sub.files,
                   dirs |-> acc.dirs \o sub.dirs])

(***************************************************************************)
(* tempfile.TemporaryDirectory used as a context manager: __exit__ removes *)
(* the directory whether the block returned or raised.                     *)
(***************************************************************************)
TempId == "tmp"

TemporaryDirectoryLeakOnRaise(live, d, raised) ==
  IF raised THEN live ELSE live \ {d}

TemporaryDirectoryExit(live, d, raised) == live \ {d}

(***************************************************************************)
(* EWSXFIle.  The object holds existing_file, files_list (pairs of a       *)
(* relative path and its bytes) and dirs_list.                             *)
(***************************************************************************)
FreshObj == [existing_file |-> None, files_list |-> <<>>, dirs_list |-> <<>>]

\* ewsx.py lines 37-52: the object from_file leaves and whether it raised
from_file(zip, filename, plat) ==
  LET x == ExpandEWSXFile(zip, EmptyTree, plat)
      w == WalkFrom(x.tree, <<>>, plat)
  IN IF x.raised
     THEN [raised |-> TRUE,
           obj |-> [existing_file |-> filename,
                    files_list |-> <<>>, dirs_list |-> <<>>]]
     ELSE [raised |-> FALSE,
           obj |-> [existing_file |-> filename,
                    files_list |-> w.files, dirs_list |-> w.dirs]]

\* lines 25-26 and 65-66: os.makedirs of every recorded directory
RECURSIVE StageDirs(_, _, _)
StageDirs(t, dirs, plat) ==
  IF dirs = <<>> THEN [raised |-> FALSE, tree |-> t]
  ELSE LET md == makedirs(t, SplitPath(Head(dirs), plat))
       IN IF ~md.ok THEN [raised |-> TRUE, tree |-> t]
          ELSE StageDirs(md.tree, Tail(dirs), plat)

\* lines 27-28 and 67-68: every recorded file written under its path
RECURSIVE StageFiles(_, _, _)
StageFiles(t, files, plat) ==
  IF files = <<>> THEN [raised |-> FALSE, tree |-> t]
  ELSE LET target == SplitPath(Head(files)[1], plat)
       IN IF ~CanOpenW(t, target) THEN [raised |-> TRUE, tree |-> t]
          ELSE StageFiles(WithFile(t, target, Head(files)[2]),
                          Tail(files), plat)

\* lines 18-28 and 58-68: the staging tree built in the temporary directory
Staging(o, tmpl, plat) ==
  IF o.existing_file = None
  THEN LET withMedia == mkdir(EmptyTree, <<MediaName>>).tree
       IN IF ~tmpl.present
          THEN [raised |-> TRUE,
                tree |-> WithFile(withMedia, <<MainDbName>>, EmptyBytes)]
          ELSE [raised |-> FALSE,
                tree |-> WithFile(withMedia, <<MainDbName>>, tmpl.data)]
  ELSE LET sd == StageDirs(EmptyTree, o.dirs_list, plat)
       IN IF sd.raised THEN sd
          ELSE StageFiles(sd.tree, o.files_list, plat)

\* the name z.write stores for rel_path: zipfile turns the host separator
\* into "/"
ArcName(rel_path, plat) ==
  IF OsSep(plat) # "/" THEN Replace(rel_path, OsSep(plat), "/") ELSE rel_path

\* ewsx.py lines 14-35: the archive left at the destination.  The destination
\* is opened for writing before the staging tree is built, so a raise leaves
\* an archive without entries.  Lines 30-34 write the files of the walk only.
save(o, tmpl, plat) ==
  LET st == Staging(o, tmpl, plat)
      w == WalkFrom(st.tree, <<>>, plat)
  IN IF st.raised
     THEN [raised |-> TRUE, zip |-> ZipFile(<<>>)]
     ELSE [raised |-> FALSE,
           zip |-> ZipFile([i \in 1..Len(w.files) |->
                              [name |-> ArcName(w.files[i][1], plat),
                               data |-> w.files[i][2],
                               fault |-> "none"]])]

(***************************************************************************)
(* EWSXFIle.expand_to_dir                                                  *)
(***************************************************************************)
DigitChars == <<"0", "1", "2", "3", "4", "5", "6", "7", "8", "9">>

\* str(num) of a natural number
RECURSIVE str(_)
str(n) ==
  IF n < 10 THEN <<DigitChars[n + 1]>>
  ELSE str(n \div 10) \o <<DigitChars[(n % 10) + 1]>>

IsPrefix(p, q) == Len(p) <= Len(q) /\ SubSeq(q, 1, Len(p)) = p

\* os.listdir: the names of the entries directly under root, in one order
listdir(t, root) ==
  LET ps == SetToSeq(DirsIn(t, root) \cup FilesIn(t, root))
  IN [i \in 1..Len(ps) |-> ps[i][Len(ps[i])]]

\* shutil.copytree(src/sp, dst/dp, dirs_exist_ok=True) into a directory dp
\* that exists: everything below sp is copied below dp
copytree(src, sp, dst, dp) ==
  LET below(q) == SubSeq(q, Len(sp) + 1, Len(q))
      srcDirs == {q \in src.dirs : IsPrefix(sp, q) /\ q # sp}
      srcFiles == {q \in DOMAIN src.files : IsPrefix(sp, q)}
      copied == [r \in {dp \o below(q) : q \in srcFiles} |->
                   src.files[sp \o SubSeq(r, Len(dp) + 1, Len(r))]]
  IN [dirs |-> dst.dirs \cup {dp \o below(q) : q \in srcDirs},
      files |-> copied @@ dst.files]

\* ewsx.py lines 73-79 from the name names[1] on; an exception leaves the loop
\* with what was copied so far
RECURSIVE CopyEntries(_, _, _, _, _)
CopyEntries(out, temp, names, schedule_path, plat) ==
  IF names = <<>> THEN [raised |-> FALSE, out |-> out]
  ELSE LET file == Head(names)
           dir_path == schedule_path \o <<file>>
       IN IF is_directory(file, plat)
          THEN LET mk == mkdir(out, dir_path)
               IN IF ~mk.ok THEN [raised |-> TRUE, out |-> out]
                  ELSE IF IsFileAt(temp, <<file>>)
                  THEN [raised |-> TRUE, out |-> mk.tree]
                  ELSE CopyEntries(copytree(temp, <<file>>, mk.tree, dir_path),
                                   temp, Tail(names), schedule_path, plat)
          ELSE IF IsDirAt(temp, <<file>>) \/ IsDirAt(out, dir_path)
               THEN [raised |-> TRUE, out |-> out]
               ELSE CopyEntries(WithFile(out, dir_path, temp.files[<<file>>]),
                                temp, Tail(names), schedule_path, plat)

\* ewsx.py lines 54-80: the output directory expand_to_dir leaves; num and
\* schedule are the number and the path of line 70-71 (0 and <<>> when the
\* staging tree could not be built)
expand_to_dir(o, tmpl, outdir, plat) ==
  LET base == IF outdir.exists THEN outdir.tree ELSE EmptyTree
      st == Staging(o, tmpl, plat)
      num == Cardinality(DirsIn(base, <<>>) \cup FilesIn(base, <<>>)) + 1
      schedule_path == <<ScheduleWord \o str(num)>>
      md == makedirs(base, schedule_path)
  IN IF st.raised
     THEN [raised |-> TRUE, out |-> base, num |-> 0, schedule |-> <<>>]
     ELSE IF ~md.ok
     THEN [raised |-> TRUE, out |-> base, num |-> num,
           schedule |-> schedule_path]
     ELSE LET c == CopyEntries(md.tree, st.tree, listdir(st.tree, <<>>),
                               schedule_path, plat)
          IN [raised |-> c.raised, out |-> c.out, num |-> num,
              schedule |-> schedule_path]

(***************************************************************************)
(* EWSXFIle.structure.  The listing is a name: a sequence of characters    *)
(* with "\n" for the line break.                                           *)
(***************************************************************************)
Chars(name) == {name[i] : i \in 1..Len(name)}

RECURSIVE lstrip(_, _)
lstrip(x, chars) ==
  IF x # <<>> /\ Head(x) \in chars THEN lstrip(Tail(x), chars) ELSE x

RECURSIVE rstrip(_, _)
rstrip(x, chars) ==
  IF x # <<>> /\ x[Len(x)] \in chars
  THEN rstrip(SubSeq(x, 1, Len(x) - 1), chars) ELSE x

\* str.strip(chars): strips the characters of chars from both ends
strip(x, chars) == rstrip(lstrip(x, chars), chars)

\* sep.join(names)
RECURSIVE JoinNames(_, _)
JoinNames(names, sep) ==
  IF names = <<>> THEN <<>>
  ELSE IF Len(names) = 1 THEN names[1]
  ELSE names[1] \o sep \o JoinNames(Tail(names), sep)

Indent == <<" ", " ", " ", " ">>

InSeq(x, seq) == \E i \in 1..Len(seq) : seq[i] = x

\* ewsx.py lines 97-110 from the item items[1] on
RECURSIVE StructLoop(_, _, _, _, _)
StructLoop(items, files_set, explored, struct, plat) ==
  IF items = <<>> THEN struct
  ELSE LET f == Head(items)
           hit(x) == startswith(x, f)
           inside == SelectSeq(files_set, hit)
           files == [i \in 1..Len(inside) |->
                       strip(inside[i], {"/"} \cup Chars(f))]
           dirText == f \o <<"/", "\n">>
                      \o (IF files # <<>>
                          THEN Indent \o JoinNames(files, <<"\n">> \o Indent)
                               \o <<"\n">>
                          ELSE <<>>)
       IN IF is_directory(f, plat)
          THEN StructLoop(Tail(items), files_set,
                          explored \o inside \o <<f>>, struct \o dirText, plat)
          ELSE StructLoop(Tail(items), files_set, Append(explored, f),
                          IF InSeq(f, explored) THEN struct ELSE struct \o f,
                          plat)

\* ewsx.py lines 82-111
structure(o, plat) ==
  LET files_set == IF o.existing_file # None
                   THEN [i \in 1..Len(o.files_list) |-> o.files_list[i][1]]
                   ELSE <<MainDbName>>
      dirs_set == IF o.existing_file # None THEN o.dirs_list
                  ELSE <<MediaName>>
  IN StructLoop(dirs_set \o files_set, files_set, <<>>, <<>>, plat)

(***************************************************************************)
(* Inputs.  Entry names an archive is built from: an empty directory, an   *)
(* extensionless name, a top-level file, a file in a directory, a file in  *)
(* a nested directory, a file below a dotted name, a name with "\".        *)
(***************************************************************************)
EntryNames ==
  { <<"m", "/">>,
    <<"m">>,
    <<"a", ".", "b">>,
    <<"m", "/", "a", ".", "b">>,
    <<"m", "/", "n", "/", "a", ".", "b">>,
    <<"a", ".", "b", "/", "c", ".", "d">>,
    <<"m", "\\", "a", ".", "b">> }

\* sequences of at most MaxEntries distinct entry names
NameSeqs ==
  UNION { {s \in [1..n -> EntryNames] :
             \A i, j \in 1..n : i # j => s[i] # s[j]} : n \in 0..MaxEntries }

\* the archive with names s, the i-th entry holding bytes i, and the k-th
\* entry (none when k = 0) carrying the fault ft
MkArchive(s, k, ft) ==
  [i \in 1..Len(s) |->
     [name |-> s[i], data |-> i, fault |-> IF i = k THEN ft ELSE "none"]]

CleanArchives == {ZipFile(MkArchive(s, 0, "none")) : s \in NameSeqs}

FaultyArchives ==
  UNION {{ZipFile(MkArchive(s, k, ft)) :
            k \in 0..Len(s), ft \in {"open", "read"}} : s \in NameSeqs}

\* an earlier expansion of a fresh archive
ScheduleTree(n) ==
  [dirs |-> {<<ScheduleWord \o str(n)>>,
             <<ScheduleWord \o str(n), MediaName>>},
   files |-> (<<ScheduleWord \o str(n), MainDbName>> :> TemplateBytes)]

MergeTrees(t, u) == [dirs |-> t.dirs \cup u.dirs, files |-> t.files @@ u.files]

\* contents of the output directory before the first call of SpecOut
NoOutDir == [exists |-> FALSE, tree |-> EmptyTree]

OutDirOf(t) == [exists |-> TRUE, tree |-> t]

InitialOutDirs ==
  { NoOutDir,
    OutDirOf(EmptyTree),
    OutDirOf(ScheduleTree(1)),
    OutDirOf(MergeTrees(ScheduleTree(1), ScheduleTree(2))),
    OutDirOf(ScheduleTree(2)),
    OutDirOf(WithFile(EmptyTree, <<ScheduleWord \o str(2)>>, TemplateBytes)),
    OutDirOf(WithFile(EmptyTree, <<MainDbName>>, TemplateBytes)) }

(***************************************************************************)
(* songimport.py.  Songs.db is its song table, a sequence of rows          *)
(* [rowid, title, author, copyright] in insertion order; SongWords.db is   *)
(* its word table, a sequence of rows [song_id, words].  Titles, file      *)
(* paths, file contents and lyrics are sequences of characters.            *)
(***************************************************************************)
\* the characters str.strip() removes
Whitespace == {" ", "\n", "\t"}

TxtSuffix == <<".", "t", "x", "t">>

\* str.replace(old, ""): every occurrence of old removed, left to right
RECURSIVE RemoveAll(_, _)
RemoveAll(x, old) ==
  IF x = <<>> THEN <<>>
  ELSE IF IsPrefix(old, x)
       THEN RemoveAll(SubSeq(x, Len(old) + 1, Len(x)), old)
       ELSE <<Head(x)>> \o RemoveAll(Tail(x), old)

\* songimport.py line 461
TitleOf(file_path, plat) ==
  strip(RemoveAll(basename(file_path, plat), TxtSuffix), Whitespace)

\* str.replace of one character by a string that is kept as one item
\* songimport.py lines 396 and 464
Rtf(content) ==
  <<"{\\rtf1\\ansi ">> \o Replace(content, "\n", "\\par ") \o <<"}">>

DefaultAuthor == "Unknown"

DefaultCopyright == "Public Domain"

\* SELECT rowid FROM song WHERE title = ?
RowsWithTitle(songs, title) ==
  {i \in 1..Len(songs) : songs[i].title = title}

\* cursor.lastrowid of an INSERT into song: one more than the largest rowid
NextRowId(songs) ==
  IF songs = <<>> THEN 1
  ELSE LET ids == {songs[i].rowid : i \in 1..Len(songs)}
       IN (CHOOSE m \in ids : \A n \in ids : n <= m) + 1

\* SELECT 1 FROM word WHERE song_id = ?
HasWords(words, song_id) ==
  \E i \in 1..Len(words) : words[i].song_id = song_id

\* songimport.py lines 399-416 and 467-484: the rowid of the song with
\* this title, after inserting the song when no row has the title
EnsureSong(songs, title, author, copyright) ==
  LET found == RowsWithTitle(songs, title)
  IN IF found # {}
     THEN [songs |-> songs,
           song_id |-> songs[CHOOSE i \in found :
                               \A j \in found : i <= j].rowid]
     ELSE [songs |-> Append(songs, [rowid |-> NextRowId(songs),
                                    title |-> title,
                                    author |-> author,
                                    copyright |-> copyright]),
           song_id |-> NextRowId(songs)]

\* songimport.py lines 379-437: the check of lines 419-421 only logs, the
\* INSERT of lines 425-428 follows it on every path
process_song(dbs, lyrics, title, author, copyright) ==
  LET s == EnsureSong(dbs.songs, title, author, copyright)
  IN [songs |-> s.songs,
      words |-> Append(dbs.words, [song_id |-> s.song_id,
                                   words |-> Rtf(lyrics)])]

\* the .txt files named on the command line and what they hold; c.txt is
\* named but cannot be opened
PathA == <<"a", ".", "t", "x", "t">>

PathDirA == <<"d", "/", "a", ".", "t", "x", "t">>

PathB == <<" ", "b", ".", "t", "x", "t">>

PathC == <<"c", ".", "t", "x", "t">>

TxtPaths == {PathA, PathDirA, PathB, PathC}

ReadableTxt == {PathA, PathDirA, PathB}

FileContent(file_path) ==
  IF file_path = PathA THEN <<"x", "\n", "y", "\n">>
  ELSE IF file_path = PathDirA THEN <<"z">>
  ELSE <<" ", "x">>

\* one file of the loop with the INSERT of the words on every path
TxtFileStepAlwaysInserts(dbs, file_path, plat) ==
  IF file_path \notin ReadableTxt THEN dbs
  ELSE LET content == strip(FileContent(file_path), Whitespace)
           s == EnsureSong(dbs.songs, TitleOf(file_path, plat),
                           DefaultAuthor, DefaultCopyright)
       IN [songs |-> s.songs,
           words |-> Append(dbs.words, [song_id |-> s.song_id,
                                        words |-> Rtf(content)])]

\* songimport.py lines 454-500: one file of the loop; an open that fails is
\* logged and the loop goes on, a song that has words is left alone
TxtFileStep(dbs, file_path, plat) ==
  IF file_path \notin ReadableTxt THEN dbs
  ELSE LET content == strip(FileContent(file_path), Whitespace)
           s == EnsureSong(dbs.songs, TitleOf(file_path, plat),
                           DefaultAuthor, DefaultCopyright)
       IN IF HasWords(dbs.words, s.song_id)
          THEN [songs |-> s.songs, words |-> dbs.words]
          ELSE [songs |-> s.songs,
                words |-> Append(dbs.words, [song_id |-> s.song_id,
                                             words |-> Rtf(content)])]

RECURSIVE TxtLoop(_, _, _, _)
TxtLoop(dbs, file_paths, i, plat) ==
  IF i > Len(file_paths) THEN dbs
  ELSE TxtLoop(TxtFileStep(dbs, file_paths[i], plat), file_paths, i + 1, plat)

\* songimport.py lines 439-508
process_txt_files(dbs, file_paths, plat) == TxtLoop(dbs, file_paths, 1, plat)

\* how shutil.copy2 of a database may end (songimport.py lines 71 and 75)
CopyOutcomes == {"ok", "FileNotFoundError", "PermissionError", "OSError"}

\* a handled failure logs and leaves create_backup without a backup list
create_backup_failure_returns(exc) ==
  IF exc \in {"FileNotFoundError", "PermissionError"} THEN "process"
  ELSE "raised"

\* songimport.py lines 79-87: the handled failures end the process with
\* exit(1), any other exception leaves main unhandled
create_backup_failure(exc) ==
  IF exc \in {"FileNotFoundError", "PermissionError"} THEN "exited"
  ELSE "raised"

\* the inputs: titles and lyrics of process_song, command lines, databases
SongTitles == {<<"a">>, <<"b">>}

SongLyrics == {<<"x">>, <<"x", "\n", "y">>}

FileLists ==
  UNION {[1..n -> TxtPaths] : n \in 0..MaxFiles}

SongRow(id, title) ==
  [rowid |-> id, title |-> title, author |-> DefaultAuthor,
   copyright |-> DefaultCopyright]

WordRow(id, lyrics) == [song_id |-> id, words |-> Rtf(lyrics)]

\* databases with at most one word row per song
InitialDbs ==
  {[songs |-> <<>>, words |-> <<>>],
   [songs |-> <<SongRow(1, <<"a">>)>>, words |-> <<>>],
   [songs |-> <<SongRow(1, <<"a">>)>>, words |-> <<WordRow(1, <<"x">>)>>],
   [songs |-> <<SongRow(2, <<"b">>)>>, words |-> <<WordRow(2, <<"x">>)>>],
   [songs |-> <<SongRow(1, <<"a">>), SongRow(2, <<"b">>)>>,
    words |-> <<WordRow(1, <<"x">>)>>]}

(***************************************************************************)
(* State machine.  last is the outcome of the latest call.                 *)
(***************************************************************************)
\* the backup files of one run of main: absent, or a copy of a table
NoBackups ==
  [songs |-> [present |-> FALSE, rows |-> <<>>],
   words |-> [present |-> FALSE, rows |-> <<>>]]

\* unzip.py line 21: the call leaves zipfile.ZipExtFile._update_crc replaced
\* by the function that checks nothing; nothing puts the original back
CrcRestoredAfterCall(before) == before

CrcPatchedAfterCall(before) == TRUE

InitWith(archives, outdirs) ==
  /\ platform \in Platforms
  /\ disk \in {[A |-> a, B |-> MissingFile] : a \in archives}
  /\ template = [present |-> TRUE, data |-> TemplateBytes]
  /\ obj = FreshObj
  /\ tempDirs = {}
  /\ outDir \in outdirs
  /\ dest = EmptyTree
  /\ last = [op |-> "Create", arg |-> None, raised |-> FALSE, value |-> None]
  /\ probe = [called |-> FALSE, name |-> <<>>, result |-> FALSE]
  /\ crcPatched = FALSE
  /\ songDb = <<>>
  /\ wordDb = <<>>
  /\ backups = NoBackups
  /\ main = [pc |-> "idle", files |-> <<>>]

Init == InitWith(CleanArchives \cup {MissingFile, GarbageFile}, {NoOutDir})

InitExpand ==
  InitWith(FaultyArchives \cup {MissingFile, GarbageFile}, {NoOutDir})

InitOut ==
  InitWith({a \in CleanArchives : Len(a.entries) <= 1}
             \cup {MissingFile, GarbageFile},
           InitialOutDirs)

InitIsDir == InitWith({MissingFile}, {NoOutDir})

\* the song import starts from databases on disk and no archive at all
InitSongs ==
  /\ platform \in Platforms
  /\ disk = [A |-> MissingFile, B |-> MissingFile]
  /\ template = [present |-> TRUE, data |-> TemplateBytes]
  /\ obj = FreshObj
  /\ tempDirs = {}
  /\ outDir = NoOutDir
  /\ dest = EmptyTree
  /\ last = [op |-> "Create", arg |-> None, raised |-> FALSE, value |-> None]
  /\ probe = [called |-> FALSE, name |-> <<>>, result |-> FALSE]
  /\ crcPatched = FALSE
  /\ \E dbs \in InitialDbs : songDb = dbs.songs /\ wordDb = dbs.words
  /\ backups = NoBackups
  /\ main = [pc |-> "idle", files |-> <<>>]

\* ewsx.py lines 114-116
Create ==
  /\ obj' = FreshObj
  /\ last' = [op |-> "Create", arg |-> None, raised |-> FALSE, value |-> None]
  /\ UNCHANGED <<platform, disk, template, tempDirs, outDir, dest, probe>>
  /\ UNCHANGED crcPatched
  /\ UNCHANGED songVars

\* ewsx.py lines 37-52
FromFile(filename) ==
  LET r == from_file(disk[filename], filename, platform)
  IN /\ obj' = r.obj
     /\ tempDirs' = TemporaryDirectoryExit(tempDirs \cup {TempId}, TempId,
                                           r.raised)
     /\ last' = [op |-> "from_file", arg |-> filename, raised |-> r.raised,
                 value |-> None]
     /\ UNCHANGED <<platform, disk, template, outDir, dest, probe>>
     /\ crcPatched' = CrcPatchedAfterCall(crcPatched)
     /\ UNCHANGED songVars

\* ewsx.py lines 14-35, saving to B
Save ==
  LET r == save(obj, template, platform)
  IN /\ disk' = [disk EXCEPT !.B = r.zip]
     /\ tempDirs' = TemporaryDirectoryExit(tempDirs \cup {TempId}, TempId,
                                           r.raised)
     /\ last' = [op |-> "save", arg |-> "B", raised |-> r.raised,
                 value |-> None]
     /\ UNCHANGED <<platform, template, obj, outDir, dest, probe>>
     /\ UNCHANGED crcPatched
     /\ UNCHANGED songVars

\* the entries directly in the output directory
OutEntries(outdir) ==
  DirsIn(outdir.tree, <<>>) \cup FilesIn(outdir.tree, <<>>)

\* ewsx.py lines 54-80; value keeps the number and path of lines 70-71 and
\* the output directory as it was before the call
ExpandToDir ==
  LET r == expand_to_dir(obj, template, outDir, platform)
  IN /\ Cardinality(OutEntries(outDir)) <= MaxSchedules
     /\ outDir' = OutDirOf(r.out)
     /\ tempDirs' = TemporaryDirectoryExit(tempDirs \cup {TempId}, TempId,
                                           r.raised)
     /\ last' = [op |-> "expand_to_dir", arg |-> None, raised |-> r.raised,
                 value |-> [num |-> r.num, schedule |-> r.schedule,
                            before |-> outDir]]
     /\ UNCHANGED <<platform, disk, template, obj, dest, probe>>
     /\ UNCHANGED crcPatched
     /\ UNCHANGED songVars

\* ewsx.py lines 82-111
Structure ==
  /\ last' = [op |-> "structure", arg |-> None, raised |-> FALSE,
              value |-> structure(obj, platform)]
  /\ UNCHANGED <<platform, disk, template, obj, tempDirs, outDir, dest, probe>>
  /\ UNCHANGED crcPatched
  /\ UNCHANGED songVars

\* unzip.py lines 20-39, called on archive A with a new output directory
ExpandCall ==
  LET r == ExpandEWSXFile(disk.A, dest, platform)
  IN /\ dest = EmptyTree
     /\ dest' = r.tree
     /\ last' = [op |-> "ExpandEWSXFile", arg |-> "A", raised |-> r.raised,
                 value |-> r.status]
     /\ UNCHANGED <<platform, disk, template, obj, tempDirs, outDir, probe>>
     /\ crcPatched' = CrcPatchedAfterCall(crcPatched)
     /\ UNCHANGED songVars

\* names handed to is_directory: the names of the documentation and every
\* name of at most MaxNameLen characters over a small alphabet
ProbeAlphabet == {"a", ".", "/", "\\"}

ProbeNames ==
  {MediaName \o <<"/">>, MediaName, MainDbName,
   <<"R", "E", "A", "D", "M", "E">>}
  \cup UNION {[1..n -> ProbeAlphabet] : n \in 0..MaxNameLen}

\* unzip.py lines 10-16
IsDirectoryCall ==
  /\ \E name \in ProbeNames :
       probe' = [called |-> TRUE, name |-> name,
                 result |-> is_directory(name, platform)]
  /\ UNCHANGED <<platform, disk, template, obj, tempDirs, outDir, dest, last>>
  /\ UNCHANGED crcPatched
  /\ UNCHANGED songVars

\* the archive object loaded, saved and listed
\* the variables of the archive handling, which the song import leaves alone
archiveVars ==
  <<platform, disk, template, obj, tempDirs, outDir, dest, probe, crcPatched>>

\* songimport.py lines 379-437
ProcessSong(title, lyrics) ==
  /\ Len(wordDb) < MaxWordRows
  /\ LET r == process_song([songs |-> songDb, words |-> wordDb], lyrics,
                           title, DefaultAuthor, DefaultCopyright)
     IN /\ songDb' = r.songs
        /\ wordDb' = r.words
  /\ last' = [op |-> "process_song", arg |-> title, raised |-> FALSE,
              value |-> None]
  /\ UNCHANGED <<archiveVars, backups, main>>

\* songimport.py lines 439-508; last.value.again tells a call with the
\* file list of the call before it
ProcessTxtFiles(file_paths) ==
  /\ LET r == process_txt_files([songs |-> songDb, words |-> wordDb],
                                file_paths, platform)
     IN /\ songDb' = r.songs
        /\ wordDb' = r.words
  /\ last' = [op |-> "process_txt_files", arg |-> file_paths,
              raised |-> FALSE,
              value |-> [again |-> /\ last.op = "process_txt_files"
                                   /\ last.arg = file_paths]]
  /\ UNCHANGED <<archiveVars, backups, main>>

\* songimport.py lines 510-596 of a run that lists, shows, dumps and
\* restores nothing: without files main prints the help and returns, with
\* files and no --input-dir it exits at line 548
MainStart(file_paths, input_dir) ==
  /\ main.pc \in {"idle", "done", "exited", "raised"}
  /\ main' = [pc |-> IF file_paths = <<>> THEN "done"
                     ELSE IF ~input_dir THEN "exited"
                     ELSE "backup_songs",
              files |-> file_paths]
  /\ backups' = NoBackups
  /\ last' = [op |-> "main", arg |-> None, raised |-> FALSE, value |-> None]
  /\ UNCHANGED <<archiveVars, songDb, wordDb>>

\* songimport.py lines 600 and 71
MainBackupSongs(outcome) ==
  /\ main.pc = "backup_songs"
  /\ IF outcome = "ok"
     THEN /\ backups' = [backups EXCEPT
                           !.songs = [present |-> TRUE, rows |-> songDb]]
          /\ main' = [main EXCEPT !.pc = "backup_words"]
     ELSE /\ main' = [main EXCEPT !.pc = create_backup_failure(outcome)]
          /\ UNCHANGED backups
  /\ last' = [op |-> "main", arg |-> None, raised |-> outcome # "ok",
              value |-> None]
  /\ UNCHANGED <<archiveVars, songDb, wordDb>>

\* songimport.py lines 75 and 89
MainBackupWords(outcome) ==
  /\ main.pc = "backup_words"
  /\ IF outcome = "ok"
     THEN /\ backups' = [backups EXCEPT
                           !.words = [present |-> TRUE, rows |-> wordDb]]
          /\ main' = [main EXCEPT !.pc = "process"]
     ELSE /\ main' = [main EXCEPT !.pc = create_backup_failure(outcome)]
          /\ UNCHANGED backups
  /\ last' = [op |-> "main", arg |-> None, raised |-> outcome # "ok",
              value |-> None]
  /\ UNCHANGED <<archiveVars, songDb, wordDb>>

\* songimport.py lines 603-615
MainProcess ==
  /\ main.pc = "process"
  /\ LET r == process_txt_files([songs |-> songDb, words |-> wordDb],
                                main.files, platform)
     IN /\ songDb' = r.songs
        /\ wordDb' = r.words
  /\ main' = [main EXCEPT !.pc = "done"]
  /\ last' = [op |-> "main", arg |-> None, raised |-> FALSE, value |-> None]
  /\ UNCHANGED <<archiveVars, backups>>

Next ==
  \/ Create
  \/ \E f \in {"A", "B"} : FromFile(f)
  \/ Save
  \/ Structure

Spec == Init /\ [][Next]_vars

\* the archive object with an output directory it is expanded into
NextOut ==
  \/ Create
  \/ \E f \in {"A", "B"} : FromFile(f)
  \/ Save
  \/ ExpandToDir
  \/ Structure

NextExpand == ExpandCall

SpecExpand == InitExpand /\ [][NextExpand]_vars

SpecOut == InitOut /\ [][NextOut]_vars

NextIsDir == IsDirectoryCall

SpecIsDir == InitIsDir /\ [][NextIsDir]_vars

\* calls of the two importers on the same databases
NextSongs ==
  \/ \E title \in SongTitles : \E lyrics \in SongLyrics :
       ProcessSong(title, lyrics)
  \/ \E file_paths \in FileLists : ProcessTxtFiles(file_paths)

SpecSongs == InitSongs /\ [][NextSongs]_vars

\* runs of main that import files
NextMain ==
  \/ \E file_paths \in FileLists : \E input_dir \in BOOLEAN :
       MainStart(file_paths, input_dir)
  \/ \E outcome \in CopyOutcomes : MainBackupSongs(outcome)
  \/ \E outcome \in CopyOutcomes : MainBackupWords(outcome)
  \/ MainProcess

SpecMain == InitSongs /\ [][NextMain]_vars

(***************************************************************************)
(* Properties.                                                             *)
(***************************************************************************)
\* what from_file records of an archive, as sets
LoadedView(zip, plat) ==
  LET r == from_file(zip, "A", plat)
  IN [files |-> {r.obj.files_list[i] : i \in 1..Len(r.obj.files_list)},
      dirs |-> {r.obj.dirs_list[i] : i \in 1..Len(r.obj.dirs_list)}]

\* the object holds what a successful from_file of archive A recorded
LoadedFromA ==
  /\ obj.existing_file = "A"
  /\ ~from_file(disk.A, "A", platform).raised

\* C1: saving an archive loaded from A succeeds and leaves an archive B
\* whose loaded files (paths with bytes) and directories are those of A.
C1_RoundTripLoaded ==
  (last.op = "save" /\ LoadedFromA)
    => /\ ~last.raised
       /\ LoadedView(disk.B, platform) = LoadedView(disk.A, platform)

\* C2: expanding the archive saved from a fresh object yields main.db with
\* the bytes of the template and a media directory.
C2_RoundTripFresh ==
  (last.op = "save" /\ obj.existing_file = None)
    => LET x == ExpandEWSXFile(disk.B, EmptyTree, platform)
       IN /\ ~last.raised
          /\ ~x.raised
          /\ IsFileAt(x.tree, <<MainDbName>>)
          /\ x.tree.files[<<MainDbName>>] = template.data
          /\ IsDirAt(x.tree, <<MediaName>>)

\* C3: ExpandEWSXFile on a valid archive never aborts on an entry: it does
\* not raise and it leaves no entry unprocessed.
C3_EntryFailureNeverAborts ==
  (last.op = "ExpandEWSXFile" /\ disk.A.kind = "zip")
    => /\ ~last.raised
       /\ \A i \in 1..Len(last.value) :
            last.value[i] \notin {"raised", "skipped"}

\* C4: no temporary directory exists once from_file, save or expand_to_dir
\* has returned or raised.
C4_NoTempDirRemains == tempDirs = {}

C4_Witness ==
  /\ last.op \in {"from_file", "save", "expand_to_dir"}
  /\ last.raised
  /\ tempDirs = {}

\* the parent directory of a recorded relative path, as a relative path
ParentName(rel, plat) ==
  SubSeq(rel, 1, LastSepIdx(rel, PathSeps(plat)) - 1)

\* C5: after a successful from_file the parent directory of every recorded
\* file, as a relative path, is a recorded directory, and the staging tree
\* can be rebuilt from the record.
C5_ParentsRecorded ==
  (last.op = "from_file" /\ ~last.raised)
    => /\ \A i \in 1..Len(obj.files_list) :
            LET parent == ParentName(obj.files_list[i][1], platform)
            IN parent = <<>> \/ InSeq(parent, obj.dirs_list)
       /\ ~Staging(obj, template, platform).raised

\* the text after the last host separator of a name, found from the split
\* of the name at the host separators
RECURSIVE FinalSegment(_, _)
FinalSegment(name, plat) ==
  IF \A i \in 1..Len(name) : name[i] \notin PathSeps(plat) THEN name
  ELSE FinalSegment(Tail(name), plat)

\* C6: is_directory(name) is true exactly when name ends with "/" or "\" or
\* the final path segment of name holds no dot; "media/", "media" and
\* "README" are directories and "main.db" is a file.
C6_IsDirectoryHeuristic ==
  probe.called
    => /\ probe.result =
            (\/ endswith(probe.name, "/")
             \/ endswith(probe.name, "\\")
             \/ "." \notin Chars(FinalSegment(probe.name, platform)))
       /\ probe.name \in {MediaName \o <<"/">>, MediaName,
                          <<"R", "E", "A", "D", "M", "E">>} => probe.result
       /\ probe.name = MainDbName => ~probe.result

\* a name with a dot before its final segment only
C6_Witness ==
  /\ probe.called
  /\ probe.name = <<".", "/", "a">>
  /\ probe.result

\* C7: expand_to_dir of a fresh archive into an output directory holding N
\* entries creates the directory schedule<N+1>, which did not exist before,
\* and leaves everything that was in the output directory as it was.
C7_NewScheduleDir ==
  (last.op = "expand_to_dir" /\ obj.existing_file = None)
    => LET before == last.value.before.tree
           n == Cardinality(OutEntries(last.value.before))
           sp == <<ScheduleWord \o str(n + 1)>>
           old(p) == \E q \in OutEntries(last.value.before) : IsPrefix(q, p)
       IN /\ ~last.raised
          /\ IsDirAt(outDir.tree, sp)
          /\ ~IsDirAt(before, sp) /\ ~IsFileAt(before, sp)
          /\ \A p \in before.dirs : p \in outDir.tree.dirs
          /\ \A p \in DOMAIN before.files :
               IsFileAt(outDir.tree, p)
               /\ outDir.tree.files[p] = before.files[p]
          /\ \A p \in outDir.tree.dirs \cup DOMAIN outDir.tree.files :
               old(p) => (p \in before.dirs \/ p \in DOMAIN before.files)

\* C8: on every platform ExpandEWSXFile has made the parent directory of the
\* path a non-directory entry is written at before it opens that path, so
\* every decompressable entry whose path is free is written there.
C8_ParentOfWrittenPathExists ==
  (last.op = "ExpandEWSXFile" /\ disk.A.kind = "zip")
    => \A i \in 1..Len(last.value) :
         ~is_directory(disk.A.entries[i].name, platform)
           => last.value[i] # "no_parent"

\* the lines of a listing
RECURSIVE SplitLines(_, _)
SplitLines(text, cur) ==
  IF text = <<>> THEN <<cur>>
  ELSE IF Head(text) = "\n"
       THEN <<cur>> \o SplitLines(Tail(text), <<>>)
       ELSE SplitLines(Tail(text), Append(cur, Head(text)))

\* C9: the listing of structure() has a line '<dir>/' for every recorded
\* directory, an indented line with the name of every file located in a
\* recorded directory, and a line with the name of every top-level file.
C9_StructureListing ==
  (last.op = "structure" /\ LoadedFromA)
    => LET lines == SplitLines(last.value, <<>>)
           rel(i) == obj.files_list[i][1]
       IN /\ \A i \in 1..Len(obj.dirs_list) :
               InSeq(obj.dirs_list[i] \o <<"/">>, lines)
          /\ \A i \in 1..Len(obj.files_list) :
               IF LastSepIdx(rel(i), PathSeps(platform)) = 0
               THEN InSeq(rel(i), lines)
               ELSE InSeq(Indent \o basename(rel(i), platform), lines)

\* C10: after ExpandEWSXFile the output directory holds a file only where an
\* entry was extracted successfully, with the bytes of that entry.
C10_OnlyExtractedFiles ==
  last.op = "ExpandEWSXFile"
    => \A p \in DOMAIN dest.files :
         \E i \in 1..Len(last.value) :
           /\ last.value[i] = "written"
           /\ TargetOf(disk.A.entries[i].name, platform) = p
           /\ dest.files[p] = disk.A.entries[i].data

\* C11: expand_to_dir of a loaded archive whose staging tree can be built,
\* into an output directory without entries, copies every directory of the
\* staging tree and every file of it, with its bytes, below the new schedule
\* directory, whatever their names.
C11_StagingTreeCopied ==
  (/\ last.op = "expand_to_dir"
   /\ obj.existing_file # None
   /\ OutEntries(last.value.before) = {}
   /\ ~Staging(obj, template, platform).raised)
    => LET st == Staging(obj, template, platform).tree
           sp == last.value.schedule
       IN /\ ~last.raised
          /\ \A p \in st.dirs : IsDirAt(outDir.tree, sp \o p)
          /\ \A p \in DOMAIN st.files :
               /\ IsFileAt(outDir.tree, sp \o p)
               /\ outDir.tree.files[sp \o p] = st.files[p]

\* C12: from_file on a path that does not exist or does not hold a zip
\* container raises: it does not return the object.
C12_BadArchiveRaises ==
  (last.op = "from_file" /\ disk[last.arg].kind # "zip") => last.raised

C12_Witness ==
  /\ last.op = "from_file"
  /\ last.arg = "A"
  /\ disk.A.kind = "garbage"
  /\ last.raised

\* C13: every relative path from_file records is the path of a file of the
\* expanded archive written with "/" between its segments, on every platform.
C13_ForwardSlashPaths ==
  (last.op = "from_file" /\ ~last.raised)
    => LET t == ExpandEWSXFile(disk[last.arg], EmptyTree, platform).tree
       IN \A i \in 1..Len(obj.files_list) :
            \E p \in DOMAIN t.files :
              obj.files_list[i][1] = JoinWith(p, "/")

\* C14: a call of ExpandEWSXFile (from_file makes one) leaves checksum
\* verification disabled for the process, and no later call enables it again.
C14_CrcOverrideOutlivesCall ==
  [][/\ last'.op \in {"from_file", "ExpandEWSXFile"} => crcPatched'
     /\ crcPatched => crcPatched']_vars

\* a save after the call that installed the override
C14_Witness == crcPatched /\ last.op = "save"

\* C18: a from_file that raises leaves the object as it was before the call.
C18_RaisingLoadKeepsObject ==
  [][(last'.op = "from_file" /\ last'.raised) => obj' = obj]_vars

\* C19: a save that raises leaves the file at the destination as it was.
C19_RaisingSaveKeepsDestination ==
  [][(last'.op = "save" /\ last'.raised) => disk'.B = disk.B]_vars

\* the song_ids of the word table that have more than one word row
SongsWithSeveralWordRows ==
  {wordDb[i].song_id : i \in {k \in 1..Len(wordDb) :
     \E j \in 1..Len(wordDb) :
       j # k /\ wordDb[j].song_id = wordDb[k].song_id}}

\* C15: from databases with at most one word row per song, process_song
\* keeps at most one word row per song_id in the word table.
C15_OneWordRowPerSong == SongsWithSeveralWordRows = {}

\* the rows of table after the first n
RowsAfter(table, n) == SubSeq(table, n + 1, Len(table))

\* C16: process_txt_files keeps the rows that are there, inserts a song row
\* only for a title no row had and a word row only for a song that had no
\* words, and a second run on the same files changes neither table.
C16_TxtImportIdempotent ==
  [][last'.op = "process_txt_files" =>
       /\ IsPrefix(songDb, songDb')
       /\ IsPrefix(wordDb, wordDb')
       /\ \A i \in (Len(songDb) + 1)..Len(songDb') :
            /\ RowsWithTitle(songDb, songDb'[i].title) = {}
            /\ RowsWithTitle(songDb', songDb'[i].title) = {i}
       /\ \A i \in (Len(wordDb) + 1)..Len(wordDb') :
            /\ ~HasWords(wordDb, wordDb'[i].song_id)
            /\ \A j \in (Len(wordDb) + 1)..Len(wordDb') :
                 wordDb'[j].song_id = wordDb'[i].song_id => j = i
       /\ (last.op = "process_txt_files" /\ last.arg = last'.arg)
            => (songDb' = songDb /\ wordDb' = wordDb)]_vars

\* a second run on a list that names one title twice, after a first run
\* that found the title and its words there
C16_Witness ==
  /\ last.op = "process_txt_files"
  /\ last.value.again
  /\ last.arg = <<PathA, PathDirA>>
  /\ HasWords(wordDb, EnsureSong(songDb, <<"a">>, DefaultAuthor,
                                 DefaultCopyright).song_id)
  /\ RowsWithTitle(songDb, <<"a">>) # {}

\* C17: in main a row is inserted only when both backups of this run are
\* complete copies of the databases as they were, so after a backup that
\* failed nothing is inserted.
C17_BackupsBeforeInsert ==
  [][(songDb' # songDb \/ wordDb' # wordDb) =>
       /\ backups.songs.present
       /\ backups.songs.rows = songDb
       /\ backups.words.present
       /\ backups.words.rows = wordDb
       /\ main.pc = "process"]_vars

\* a run of main that has inserted rows after its two backups
C17_Witness ==
  /\ main.pc = "done"
  /\ backups.songs.present
  /\ backups.words.present
  /\ (songDb # backups.songs.rows \/ wordDb # backups.words.rows)

====
